---------------------------- MODULE Spec2Model ----------------------------
(***************************************************************************)
(* A model of safer_parks_utils/bounding_box.py: the bracket-list parser,  *)
(* the column filter, the single-extract processor and the batch           *)
(* processor, driven by a caller that invokes one of the four functions.   *)
(*                                                                         *)
(* Text is a sequence of one-character strings.  A dataset is a record     *)
(* [columns, rows, crs]; a row is a sequence of values aligned with        *)
(* columns; the value of the geometry column is an axis-aligned shape      *)
(* [x1, y1, x2, y2] (a point, a segment or a rectangle).                   *)
(***************************************************************************)
EXTENDS Integers, Sequences, FiniteSets, TLC

VARIABLES
    entry,      \* the library function the caller invoked
    pc,         \* control position inside that function
    ret,        \* the value returned to the caller (meaningful once pc is returned)
    err,        \* the exception propagated to the caller ("none" if none)
    stdout,     \* the lines printed so far
    cell,       \* how the caller wrote the text it passes to the parser
    val,        \* parse_bracket_list: its argument
    content,    \* parse_bracket_list: the text between the brackets
    items,      \* parse_bracket_list: what findall returned
    heap,       \* the dataframe objects: heap[r] is the dataset of reference r
    gdf,        \* cleaning, bounding_box_calc: the reference held by gdf
    sel,        \* cleaning: its argument list_of_columns_to_keep
    args,       \* bounding_box_calc: its arguments
    subset,     \* bounding_box_calc: the reference held by subset_gdf
    files,      \* the file system: path -> the dataset stored in the file
    dirs,       \* the file system: the directories os.makedirs created
    events,     \* the calls, writes and returns of bounding_box_calc so far
    csv,        \* bounding_box_calc_table: the rows of the file at path_to_csv
    table,      \* bounding_box_calc_table: the rows of df
    idx         \* bounding_box_calc_table: the row the loop is at

parseVars == <<cell, val, content, items>>
dataVars == <<heap, gdf, sel>>
calcVars == <<args, subset, files, dirs, events>>
tableVars == <<csv, table, idx>>

vars == <<entry, pc, ret, err, stdout, parseVars, dataVars, calcVars, tableVars>>

(***************************************************************************)
(* Bounds of the model.                                                    *)
(***************************************************************************)
MaxItems == 3
MaxSel == 2
MaxFeatures == 2
MaxRows == 3

(***************************************************************************)
(* Text helpers.                                                           *)
(***************************************************************************)
Whitespace == {" ", "\t", "\n"}

(***************************************************************************)
(* re.search of the bracket pattern (line 52): the leftmost opening        *)
(* bracket from which a closing bracket can be reached without crossing a  *)
(* line break (the dot matches no line break), and the first closing       *)
(* bracket after it.  The result is <<i, j>>, the positions of the two     *)
(* brackets, or <<>> when the pattern matches nowhere (None).              *)
(***************************************************************************)
ClosingAt(s, i) ==
    LET js == {j \in (i + 1)..Len(s) :
                   /\ s[j] = "]"
                   /\ \A k \in (i + 1)..(j - 1) : s[k] # "]" /\ s[k] # "\n"}
    IN  IF js = {} THEN 0 ELSE CHOOSE j \in js : TRUE

\* A search that, finding no bracketed span, takes the whole text as the span.
re_search_whole(s) ==
    LET starts == {i \in 1..Len(s) : s[i] = "[" /\ ClosingAt(s, i) # 0}
    IN  IF starts = {} THEN <<0, Len(s) + 1>>
        ELSE LET i == CHOOSE a \in starts : \A b \in starts : a <= b
             IN  <<i, ClosingAt(s, i)>>

re_search(s) ==
    LET starts == {i \in 1..Len(s) : s[i] = "[" /\ ClosingAt(s, i) # 0}
    IN  IF starts = {} THEN <<>>
        ELSE LET i == CHOOSE a \in starts : \A b \in starts : a <= b
             IN  <<i, ClosingAt(s, i)>>

(***************************************************************************)
(* re.findall of the token pattern (line 54): a quoted span, or else a run *)
(* of non-whitespace characters.  The pattern has exactly one              *)
(* group, so findall yields, for every match, the text of that group: the  *)
(* interior of a quoted span, and the empty string for a match of the      *)
(* second alternative, in which the group took no part.                    *)
(***************************************************************************)
QuoteEndGreedy(s, p) ==
    LET qs == {q \in (p + 1)..Len(s) : s[q] = "'"}
    IN  IF qs = {} THEN 0 ELSE CHOOSE q \in qs : \A r \in qs : q >= r

QuoteEnd(s, p) ==
    LET qs == {q \in (p + 1)..Len(s) : s[q] = "'"}
    IN  IF qs = {} THEN 0 ELSE CHOOSE q \in qs : \A r \in qs : q <= r

RunEnd(s, p) ==
    LET stops == {q \in (p + 1)..Len(s) : s[q] \in Whitespace}
    IN  IF stops = {} THEN Len(s)
        ELSE (CHOOSE q \in stops : \A r \in stops : q <= r) - 1

BareGroupAlt(word) == word

BareGroup(word) == <<>>

RECURSIVE FindAllFrom(_, _)
FindAllFrom(s, p) ==
    IF p > Len(s) THEN <<>>
    ELSE IF s[p] = "'" /\ QuoteEnd(s, p) # 0
         THEN <<SubSeq(s, p + 1, QuoteEnd(s, p) - 1)>>
                  \o FindAllFrom(s, QuoteEnd(s, p) + 1)
    ELSE IF s[p] \notin Whitespace
         THEN <<BareGroup(SubSeq(s, p, RunEnd(s, p)))>>
                  \o FindAllFrom(s, RunEnd(s, p) + 1)
    ELSE FindAllFrom(s, p + 1)

re_findall(s) == FindAllFrom(s, 1)

(***************************************************************************)
(* parse_bracket_list(val).  No item of findall is a tuple, so the loop    *)
(* appends every item that is not the empty string.  The result is         *)
(* [ok |-> TRUE, value |-> list], or [ok |-> FALSE, error |-> kind] when   *)
(* .group(1) is applied to None.                                           *)
(***************************************************************************)
KeepAllItems(its) == its

RECURSIVE NonEmptyItems(_)
NonEmptyItems(its) ==
    IF its = <<>> THEN <<>>
    ELSE IF Head(its) # <<>>
         THEN <<Head(its)>> \o NonEmptyItems(Tail(its))
         ELSE NonEmptyItems(Tail(its))

parse_bracket_list(v) ==
    LET m == re_search(v)
    IN  IF m = <<>> THEN [ok |-> FALSE, error |-> "AttributeError"]
        ELSE [ok |-> TRUE,
              value |-> NonEmptyItems(re_findall(SubSeq(v, m[1] + 1, m[2] - 1)))]

(***************************************************************************)
(* The texts a caller passes to the parser: a prefix, then (in brackets or *)
(* not) up to MaxItems tokens separated by single spaces, then a suffix.   *)
(* A token is quoted or bare.                                              *)
(***************************************************************************)
Longitude == <<"L", "o", "n", "g", "i", "t", "u", "d", "e">>
Latitude == <<"L", "a", "t", "i", "t", "u", "d", "e">>
CrimeType == <<"C", "r", "i", "m", "e", " ", "t", "y", "p", "e">>
GeometryWord == <<"g", "e", "o", "m", "e", "t", "r", "y">>

QuotedTexts == {<<>>, Longitude, Latitude, CrimeType, <<"i", "\n", "d">>}
BareTexts == {GeometryWord}

Tokens ==
    [quoted : {TRUE}, text : QuotedTexts] \cup [quoted : {FALSE}, text : BareTexts]

Prefixes == {<<>>, <<"x", " ">>, <<"[", "\n">>}
Suffixes == {<<>>, <<" ", "[", "'", "b", "'", "]">>, <<"]">>}

SeqsUpTo(S, n) == UNION {[1..k -> S] : k \in 0..n}

Cells ==
    [pre : Prefixes, toks : SeqsUpTo(Tokens, MaxItems), post : Suffixes,
     bracketed : BOOLEAN]

RenderToken(t) == IF t.quoted THEN <<"'">> \o t.text \o <<"'">> ELSE t.text

RECURSIVE RenderTokens(_)
RenderTokens(toks) ==
    IF toks = <<>> THEN <<>>
    ELSE IF Len(toks) = 1 THEN RenderToken(toks[1])
    ELSE RenderToken(toks[1]) \o <<" ">> \o RenderTokens(Tail(toks))

Render(c) ==
    c.pre \o (IF c.bracketed THEN <<"[">> \o RenderTokens(c.toks) \o <<"]">>
                             ELSE RenderTokens(c.toks)) \o c.post

NoCell == [pre |-> <<>>, toks |-> <<>>, post |-> <<>>, bracketed |-> FALSE]

(***************************************************************************)
(* Values of the variables a function does not use.                        *)
(***************************************************************************)
NoSel == [given |-> FALSE, list |-> <<>>]

IdleParse == cell = NoCell /\ val = <<>> /\ content = <<>> /\ items = <<>>
IdleData == heap = <<>> /\ gdf = 0 /\ sel = NoSel

NoArgs ==
    [input_file |-> <<>>, output_dir |-> <<>>, bbox_coords |-> <<0, 0, 0, 0>>,
     file_prefix |-> "", clean |-> NoSel, crs |-> <<"int", 4326>>]

IdleCalc ==
    /\ args = NoArgs /\ subset = 0 /\ files = <<>> /\ dirs = {}
    /\ events = <<>>

IdleTable == csv = <<>> /\ table = <<>> /\ idx = 0

(***************************************************************************)
(* The caller invokes parse_bracket_list(val).                             *)
(***************************************************************************)
InitParse ==
    /\ entry = "parse_bracket_list"
    /\ pc = "search"
    /\ ret = <<>>
    /\ err = "none"
    /\ stdout = <<>>
    /\ cell \in Cells
    /\ val = Render(cell)
    /\ content = <<>>
    /\ items = <<>>
    /\ IdleData /\ IdleCalc /\ IdleTable

\* line 52: content = re.search(...).group(1)
ParseSearch ==
    /\ entry = "parse_bracket_list" /\ pc = "search"
    /\ LET m == re_search(val)
       IN  IF m = <<>>
           THEN /\ pc' = "raised"
                /\ err' = "AttributeError"
                /\ UNCHANGED content
           ELSE /\ pc' = "findall"
                /\ content' = SubSeq(val, m[1] + 1, m[2] - 1)
                /\ UNCHANGED err
    /\ UNCHANGED <<entry, ret, stdout, cell, val, items, dataVars, calcVars, tableVars>>

\* line 54: items = re.findall(..., content)
ParseFindall ==
    /\ entry = "parse_bracket_list" /\ pc = "findall"
    /\ items' = re_findall(content)
    /\ pc' = "collect"
    /\ UNCHANGED <<entry, ret, err, stdout, cell, val, content, dataVars, calcVars, tableVars>>

\* lines 56-62: the loop over items, and the return
ParseCollect ==
    /\ entry = "parse_bracket_list" /\ pc = "collect"
    /\ ret' = NonEmptyItems(items)
    /\ pc' = "returned"
    /\ UNCHANGED <<entry, err, stdout, cell, val, content, items, dataVars, calcVars, tableVars>>

NextParse == ParseSearch \/ ParseFindall \/ ParseCollect

SpecParse == InitParse /\ [][NextParse]_vars

(***************************************************************************)
(* Claims about parse_bracket_list (checked under SpecParse).              *)
(***************************************************************************)
RECURSIVE QuotedInteriors(_)
QuotedInteriors(toks) ==
    IF toks = <<>> THEN <<>>
    ELSE IF Head(toks).quoted
         THEN <<Head(toks).text>> \o QuotedInteriors(Tail(toks))
         ELSE QuotedInteriors(Tail(toks))

Elems(seq) == {seq[i] : i \in 1..Len(seq)}

AllQuoted(toks) == \A i \in 1..Len(toks) : toks[i].quoted
HasBare(toks) == \E i \in 1..Len(toks) : ~toks[i].quoted
HasQuoted(toks) == \E i \in 1..Len(toks) : toks[i].quoted
OnOneLine(toks) == \A i \in 1..Len(toks) : "\n" \notin Elems(toks[i].text)
NoEmptyText(toks) == \A i \in 1..Len(toks) : toks[i].text # <<>>

\* The text in brackets that the caller wrote is the first bracketed span of val.
FirstSpanIsCell == cell.bracketed /\ "[" \notin Elems(cell.pre)

\* The interior that line 52 extracted is the token list the caller wrote.
InteriorIsCell ==
    /\ cell.bracketed
    /\ pc \in {"findall", "collect", "returned"}
    /\ content = RenderTokens(cell.toks)

\* C8 as stated: when the first bracketed span holds only single-quoted tokens
\* separated by spaces, the parser returns (never raises) and its result is
\* exactly the tokens' interiors in order, whatever follows the span.
C8_AsStated ==
    (entry = "parse_bracket_list" /\ FirstSpanIsCell /\ AllQuoted(cell.toks))
        => /\ pc # "raised"
           /\ pc = "returned" => ret = QuotedInteriors(cell.toks)

\* C8 (amended): when the first bracketed span holds only single-quoted tokens
\* separated by spaces and no token text holds a line break, the parser
\* returns exactly the non-empty interiors in order (an empty quoted token
\* contributes nothing); the interior [] yields the empty list and text after
\* the span contributes nothing.
C8_QuotedTokens ==
    (entry = "parse_bracket_list" /\ FirstSpanIsCell /\ AllQuoted(cell.toks)
         /\ OnOneLine(cell.toks))
        => /\ pc # "raised"
           /\ pc = "returned" =>
                 /\ ret = NonEmptyItems(QuotedInteriors(cell.toks))
                 /\ NoEmptyText(cell.toks) => ret = QuotedInteriors(cell.toks)
                 /\ cell.toks = <<>> => ret = <<>>

C8_Witness ==
    /\ entry = "parse_bracket_list" /\ pc = "returned"
    /\ val = <<"[", "'">> \o CrimeType \o <<"'", " ", "'">> \o Latitude
                \o <<"'", "]", " ", "[", "'", "b", "'", "]">>
    /\ ret = <<CrimeType, Latitude>>

\* C9: when the extracted bracket interior mixes quoted tokens with a bare
\* token, the result holds only quoted interiors, in order, and never the bare
\* token; ['Longitude' 'Latitude' geometry] parses to [Longitude, Latitude].
C9_BareDropped ==
    (entry = "parse_bracket_list" /\ pc = "returned" /\ InteriorIsCell
         /\ HasBare(cell.toks) /\ HasQuoted(cell.toks))
        => /\ ret = NonEmptyItems(QuotedInteriors(cell.toks))
           /\ \A i \in 1..Len(cell.toks) :
                  ~cell.toks[i].quoted => cell.toks[i].text \notin Elems(ret)
           /\ val = <<"[", "'">> \o Longitude \o <<"'", " ", "'">> \o Latitude
                       \o <<"'", " ">> \o GeometryWord \o <<"]">>
                  => ret = <<Longitude, Latitude>>

C9_Witness ==
    /\ entry = "parse_bracket_list" /\ pc = "returned"
    /\ val = <<"[", "'">> \o Longitude \o <<"'", " ", "'">> \o Latitude
                \o <<"'", " ">> \o GeometryWord \o <<"]">>
    /\ ret = <<Longitude, Latitude>>

\* C10 as stated: every bare word of the extracted interior appears in the
\* result.
C10_AsStated ==
    (entry = "parse_bracket_list" /\ pc = "returned" /\ InteriorIsCell)
        => \A i \in 1..Len(cell.toks) :
               ~cell.toks[i].quoted => cell.toks[i].text \in Elems(ret)

\* C10 (amended): every match found in the interior yields one item of
\* findall: a quoted span yields its interior and a bare word yields the empty
\* string; the items that are empty are discarded, so a bare word never
\* contributes a token.
C10_MatchItems ==
    (entry = "parse_bracket_list" /\ pc \in {"collect", "returned"}
         /\ InteriorIsCell)
        => /\ Len(items) = Len(cell.toks)
           /\ \A i \in 1..Len(items) :
                  items[i] = IF cell.toks[i].quoted THEN cell.toks[i].text
                                                    ELSE <<>>
           /\ pc = "returned" =>
                  /\ Len(ret) = Cardinality({i \in 1..Len(items) : items[i] # <<>>})
                  /\ \A i \in 1..Len(cell.toks) :
                         ~cell.toks[i].quoted =>
                             cell.toks[i].text \notin Elems(ret)

C10_Witness ==
    /\ entry = "parse_bracket_list" /\ pc = "collect"
    /\ InteriorIsCell
    /\ cell.toks = <<[quoted |-> FALSE, text |-> GeometryWord],
                     [quoted |-> TRUE, text |-> CrimeType]>>
    /\ items = <<<<>>, CrimeType>>

\* The text holds an opening bracket with a closing bracket somewhere after it.
HasBracketPair(s) ==
    \E i \in 1..Len(s) : \E j \in (i + 1)..Len(s) : s[i] = "[" /\ s[j] = "]"

\* C11: when val holds no opening bracket followed by a closing bracket, the
\* call to parse_bracket_list raises at the search (an AttributeError, from
\* .group(1) on None): it never goes on to findall, never returns, and
\* produces no list, empty or partial.
C11_NoBracketPair ==
    (entry = "parse_bracket_list" /\ ~HasBracketPair(val))
        => /\ pc \in {"search", "raised"}
           /\ ENABLED ParseSearch \/ pc = "raised"
           /\ pc = "raised" => err = "AttributeError"
           /\ ret = <<>> /\ content = <<>> /\ items = <<>>
           /\ parse_bracket_list(val) = [ok |-> FALSE, error |-> "AttributeError"]

C11_Witness ==
    /\ entry = "parse_bracket_list" /\ pc = "raised"
    /\ err = "AttributeError"
    /\ val = <<"'">> \o Longitude \o <<"'", " ", "'">> \o Latitude
                \o <<"'", "]">>
    /\ ret = <<>>

(***************************************************************************)
(* Datasets.  A shape is <<x1, y1, x2, y2>> with x1 <= x2 and y1 <= y2.    *)
(* The dataset made of the shapes gs has one row per shape; the attribute  *)
(* cell of column c in row i is <<c, i>>.  crs is an EPSG code, 0 for a    *)
(* dataset with no CRS (or with no geometry column: a plain DataFrame).    *)
(***************************************************************************)
CellOf(c, i, g) == IF c = "geometry" THEN g ELSE <<c, i>>

MakeDataset(cols, gs, crs) ==
    [columns |-> cols,
     rows |-> [i \in 1..Len(gs) |->
                  [j \in 1..Len(cols) |-> CellOf(cols[j], i, gs[i])]],
     crs |-> crs]

ColumnIndex(cols, name) == CHOOSE j \in 1..Len(cols) : cols[j] = name

HasGeometry(d) == "geometry" \in Elems(d.columns)

(***************************************************************************)
(* gdf[columns_to_keep].copy() (line 164): a KeyError when a name is not a *)
(* column, else a new frame with the named columns in the order given.     *)
(* Without the geometry column the new frame is a plain DataFrame.         *)
(***************************************************************************)
SelectColumnsWithGeometry(d, list) ==
    LET kept == IF HasGeometry(d) /\ "geometry" \notin Elems(list)
                THEN list \o <<"geometry">> ELSE list
    IN  [columns |-> kept,
         rows |-> [i \in 1..Len(d.rows) |->
                      [j \in 1..Len(kept) |->
                          d.rows[i][ColumnIndex(d.columns, kept[j])]]],
         crs |-> IF "geometry" \in Elems(kept) THEN d.crs ELSE 0]

SelectColumns(d, list) ==
    [columns |-> list,
     rows |-> [i \in 1..Len(d.rows) |->
                  [j \in 1..Len(list) |->
                      d.rows[i][ColumnIndex(d.columns, list[j])]]],
     crs |-> IF "geometry" \in Elems(list) THEN d.crs ELSE 0]

MissingColumns(d, list) == Elems(list) \ Elems(d.columns)

(***************************************************************************)
(* cleaning(gdf, list_of_columns_to_keep), lines 156-167, on the dataset d *)
(* of the frame passed.  same tells that the frame passed is what is       *)
(* returned; out is what the call prints.                                  *)
(***************************************************************************)
FalsyNoneOnly(l) == ~l.given

cleaningLenient(d, l) ==
    LET present == SelectSeq(l.list, LAMBDA c : c \in Elems(d.columns))
    IN  IF ~l.given \/ l.list = <<>>
        THEN [ok |-> TRUE, same |-> TRUE, value |-> d, out |-> <<>>]
        ELSE [ok |-> TRUE, same |-> FALSE,
              value |-> SelectColumns(d, present),
              out |-> << <<"Original columns", d.columns>>,
                         <<"Columns to keep", l.list>>,
                         <<"Final filtered columns", present>> >>]

\* A filter that keeps the geometry column of the frame whether named or not.
cleaningKeepsGeometry(d, l) ==
    IF ~l.given \/ l.list = <<>>
    THEN [ok |-> TRUE, same |-> TRUE, value |-> d, out |-> <<>>]
    ELSE LET head == << <<"Original columns", d.columns>>,
                        <<"Columns to keep", l.list>> >>
         IN  IF MissingColumns(d, l.list) # {}
             THEN [ok |-> FALSE, error |-> "KeyError", out |-> head]
             ELSE [ok |-> TRUE, same |-> FALSE,
                   value |-> SelectColumnsWithGeometry(d, l.list),
                   out |-> Append(head, <<"Final filtered columns", l.list>>)]

Falsy(l) == ~l.given \/ l.list = <<>>

cleaning(d, l) ==
    IF Falsy(l)
    THEN [ok |-> TRUE, same |-> TRUE, value |-> d, out |-> <<>>]
    ELSE LET head == << <<"Original columns", d.columns>>,
                        <<"Columns to keep", l.list>> >>
         IN  IF MissingColumns(d, l.list) # {}
             THEN [ok |-> FALSE, error |-> "KeyError", out |-> head]
             ELSE [ok |-> TRUE, same |-> FALSE,
                   value |-> SelectColumns(d, l.list),
                   out |-> Append(head, <<"Final filtered columns", l.list>>)]

(***************************************************************************)
(* The caller invokes cleaning(gdf, list) on a frame it holds.             *)
(***************************************************************************)
ColumnNames == {"id", "name", "geometry", "nonexistent1"}
ColumnOrders == {<<"id", "name", "geometry">>, <<"geometry", "name", "id">>}
CleaningShapes == {<<0, 0, 0, 0>>, <<1, 1, 1, 1>>, <<2, 2, 2, 2>>}

Selections ==
    {NoSel} \cup [given : {TRUE}, list : SeqsUpTo(ColumnNames, MaxSel)]

InitCleaning ==
    /\ entry = "cleaning"
    /\ pc = "call"
    /\ ret = 0
    /\ err = "none"
    /\ stdout = <<>>
    /\ IdleParse /\ IdleCalc /\ IdleTable
    /\ \E cols \in ColumnOrders, gs \in SeqsUpTo(CleaningShapes, MaxFeatures),
          crs \in {0, 4326} :
           heap = <<MakeDataset(cols, gs, crs)>>
    /\ gdf = 1
    /\ sel \in Selections

\* lines 156-167
CleaningCall ==
    /\ entry = "cleaning" /\ pc = "call"
    /\ LET r == cleaning(heap[gdf], sel)
       IN  /\ stdout' = stdout \o r.out
           /\ IF ~r.ok
              THEN /\ pc' = "raised"
                   /\ err' = r.error
                   /\ UNCHANGED <<ret, heap>>
              ELSE /\ pc' = "returned"
                   /\ UNCHANGED err
                   /\ IF r.same
                      THEN ret' = gdf /\ UNCHANGED heap
                      ELSE /\ heap' = Append(heap, r.value)
                           /\ ret' = Len(heap) + 1
    /\ UNCHANGED <<entry, parseVars, gdf, sel, calcVars, tableVars>>

NextCleaning == CleaningCall

SpecCleaning == InitCleaning /\ [][NextCleaning]_vars

(***************************************************************************)
(* Claims about cleaning (checked under SpecCleaning).                     *)
(***************************************************************************)
GeometriesOf(d) ==
    [i \in 1..Len(d.rows) |-> d.rows[i][ColumnIndex(d.columns, "geometry")]]

CleaningCalled == entry = "cleaning" /\ pc = "call"

C6_MissingColumn ==
    [][(CleaningCalled /\ ~Falsy(sel) /\ MissingColumns(heap[gdf], sel.list) # {})
          => /\ pc' = "raised" /\ err' = "KeyError"
             /\ ret' = ret
             /\ heap' = heap]_vars

C6_Witness ==
    /\ entry = "cleaning" /\ pc = "raised" /\ err = "KeyError"
    /\ sel.list = <<"id", "nonexistent1">>
    /\ Len(heap) = 1
    /\ ret = 0

\* C7: cleaning(D, []) and cleaning(D, None) return a dataset equal in content
\* to D: the same rows, the same columns in the same order, the same CRS.
C7_Identity ==
    [][(CleaningCalled /\ (~sel.given \/ sel.list = <<>>))
          => /\ pc' = "returned" /\ err' = "none"
             /\ heap'[ret'].columns = heap[gdf].columns
             /\ heap'[ret'].rows = heap[gdf].rows
             /\ heap'[ret'].crs = heap[gdf].crs]_vars

C7_Witness ==
    /\ entry = "cleaning" /\ pc = "returned"
    /\ sel.given /\ sel.list = <<>>
    /\ Len(heap[ret].rows) = MaxFeatures
    /\ heap[ret].columns = <<"geometry", "name", "id">>
    /\ heap[ret].crs = 4326

(***************************************************************************)
(* Geometry.  shapely's box(minx, miny, maxx, maxy) is the rectangle with  *)
(* those corners, in whichever order the coordinates come.  a.within(b)    *)
(* holds when no point of a lies outside b and the interiors of a and b    *)
(* share a point.  Shapes have integer corners, so the point sets are      *)
(* taken on the grid of half-integers (coordinates doubled): the interior  *)
(* of a point is the point, of a segment the segment without its ends, of  *)
(* a rectangle the rectangle without its border.                           *)
(***************************************************************************)
Min(a, b) == IF a <= b THEN a ELSE b
Max(a, b) == IF a >= b THEN a ELSE b

box(c) == <<Min(c[1], c[3]), Min(c[2], c[4]), Max(c[1], c[3]), Max(c[2], c[4])>>

ClosedSpan(lo, hi) == (2 * lo)..(2 * hi)
OpenSpan(lo, hi) == IF lo = hi THEN {2 * lo} ELSE (2 * lo + 1)..(2 * hi - 1)

ClosurePoints(g) == ClosedSpan(g[1], g[3]) \X ClosedSpan(g[2], g[4])
InteriorPoints(g) == OpenSpan(g[1], g[3]) \X OpenSpan(g[2], g[4])

Intersects(a, b) == ClosurePoints(a) \cap ClosurePoints(b) # {}

Within(a, b) ==
    /\ ClosurePoints(a) \subseteq ClosurePoints(b)
    /\ InteriorPoints(a) \cap InteriorPoints(b) # {}

(***************************************************************************)
(* Coordinate reference systems.  A position has different coordinates in  *)
(* different systems; the model takes the coordinates in EPSG:c to be the  *)
(* EPSG:4326 coordinates moved by Easting(c) along both axes.              *)
(***************************************************************************)
Easting(c) == IF c = 4326 THEN 0 ELSE IF c = 27700 THEN 10 ELSE 20

Move(g, d) == <<g[1] + d, g[2] + d, g[3] + d, g[4] + d>>

Reproject(g, from, to) == Move(g, Easting(to) - Easting(from))

MapGeometry(d, F(_)) ==
    [d EXCEPT !.rows =
        [i \in 1..Len(d.rows) |->
            [j \in 1..Len(d.columns) |->
                IF d.columns[j] = "geometry" THEN F(d.rows[i][j])
                                             ELSE d.rows[i][j]]]]

\* gdf.set_crs(epsg=c, inplace=True), allow_override left False: the frame
\* is labelled c when it has no CRS or has c already, else ValueError.
set_crs(d, c) ==
    IF d.crs = 0 \/ d.crs = c
    THEN [ok |-> TRUE, value |-> [d EXCEPT !.crs = c]]
    ELSE [ok |-> FALSE, error |-> "ValueError"]

\* gdf.to_crs(epsg=c): a new frame, its geometry moved from d.crs to c.
to_crs(d, c) ==
    [MapGeometry(d, LAMBDA g : Reproject(g, d.crs, c)) EXCEPT !.crs = c]

\* The crs argument is <<"str", text>> or <<"int", number>>.
IsNo(c) == c[1] = "str" /\ c[2] = "no"
Is4326(c) == c[1] = "int" /\ c[2] = 4326
EpsgOf(c) ==
    IF c[1] = "int" THEN c[2]
    ELSE IF c[2] = "4326" THEN 4326
    ELSE IF c[2] = "27700" THEN 27700
    ELSE 0

(***************************************************************************)
(* Files.  gpd.read_file yields the properties of the features in file     *)
(* order and the geometry column last; to_file stores the frame.           *)
(***************************************************************************)
read_file(d) ==
    SelectColumns(d, SelectSeq(d.columns, LAMBDA c : c # "geometry")
                         \o <<"geometry">>)

OutPathNoSuffix(a) == <<a.output_dir, a.file_prefix, ".geojson">>

OutPath(a) == <<a.output_dir, a.file_prefix, "_subset.geojson">>

Store(fs, path, d) ==
    [q \in DOMAIN fs \cup {path} |-> IF q = path THEN d ELSE fs[q]]

\* subset_gdf.to_file(out_path, driver="GeoJSON"): the file system afterwards
to_file_discarded(fs, path, d) == fs

to_file(fs, path, d) == Store(fs, path, d)

\* gdf[gdf.geometry.within(bbox)]
WithinRows(d, b) ==
    [d EXCEPT !.rows =
        SelectSeq(d.rows,
                  LAMBDA r : Within(r[ColumnIndex(d.columns, "geometry")], b))]

(***************************************************************************)
(* bounding_box_calc, lines 80-110, one action per statement.  An          *)
(* exception leaves the function (and the batch that called it) at once.   *)
(***************************************************************************)
InCalc == entry \in {"bounding_box_calc", "bounding_box_calc_table"}

Raise(kind) == pc' = "raised" /\ err' = kind

\* line 81: os.makedirs(output_dir, exist_ok=True)
CalcMakedirs ==
    /\ InCalc /\ pc = "makedirs"
    /\ dirs' = dirs \cup {args.output_dir}
    /\ pc' = "read_file"
    /\ UNCHANGED <<entry, ret, err, stdout, parseVars, dataVars, args, subset,
                   files, events, tableVars>>

\* line 84: gdf = gpd.read_file(input_file)
CalcReadFile ==
    /\ InCalc /\ pc = "read_file"
    /\ IF args.input_file \in DOMAIN files
       THEN /\ heap' = Append(heap, read_file(files[args.input_file]))
            /\ gdf' = Len(heap) + 1
            /\ pc' = "cleaning"
            /\ UNCHANGED err
       ELSE /\ Raise("DataSourceError")
            /\ UNCHANGED <<heap, gdf>>
    /\ UNCHANGED <<entry, ret, stdout, parseVars, sel, calcVars, tableVars>>

\* line 87: gdf = cleaning(gdf, clean)
CalcCleaning ==
    /\ InCalc /\ pc = "cleaning"
    /\ LET r == cleaning(heap[gdf], args.clean)
       IN  /\ stdout' = stdout \o r.out
           /\ IF ~r.ok
              THEN Raise(r.error) /\ UNCHANGED <<heap, gdf>>
              ELSE /\ pc' = "crs"
                   /\ UNCHANGED err
                   /\ IF r.same
                      THEN UNCHANGED <<heap, gdf>>
                      ELSE /\ heap' = Append(heap, r.value)
                           /\ gdf' = Len(heap) + 1
    /\ UNCHANGED <<entry, ret, parseVars, sel, calcVars, tableVars>>

\* lines 90-96: the crs directive, and gdf.set_crs(epsg=crs, inplace=True)
CalcSetCrs ==
    /\ InCalc /\ pc = "crs"
    /\ IF IsNo(args.crs) \/ Is4326(args.crs)
       THEN pc' = "within" /\ UNCHANGED <<err, heap>>
       ELSE IF ~HasGeometry(heap[gdf])
       THEN Raise("AttributeError") /\ UNCHANGED heap
       ELSE LET r == set_crs(heap[gdf], EpsgOf(args.crs))
            IN  IF r.ok
                THEN /\ heap' = [heap EXCEPT ![gdf] = r.value]
                     /\ pc' = "to_crs"
                     /\ UNCHANGED err
                ELSE Raise(r.error) /\ UNCHANGED heap
    /\ UNCHANGED <<entry, ret, stdout, parseVars, gdf, sel, calcVars, tableVars>>

\* line 97: gdf = gdf.to_crs(epsg=4326)
CalcToCrs ==
    /\ InCalc /\ pc = "to_crs"
    /\ heap' = Append(heap, to_crs(heap[gdf], 4326))
    /\ gdf' = Len(heap) + 1
    /\ pc' = "within"
    /\ UNCHANGED <<entry, ret, err, stdout, parseVars, sel, calcVars, tableVars>>

\* lines 100-103: bbox = box(*bbox_coords); subset_gdf = gdf[...within(bbox)]
CalcWithin ==
    /\ InCalc /\ pc = "within"
    /\ IF ~HasGeometry(heap[gdf])
       THEN Raise("AttributeError") /\ UNCHANGED <<heap, subset>>
       ELSE /\ heap' = Append(heap, WithinRows(heap[gdf], box(args.bbox_coords)))
            /\ subset' = Len(heap) + 1
            /\ pc' = "to_file"
            /\ UNCHANGED err
    /\ UNCHANGED <<entry, ret, stdout, parseVars, gdf, sel, args, files, dirs,
                   events, tableVars>>

\* lines 106-110: subset_gdf.to_file(out_path), the Saved line, the return
CalcToFile ==
    /\ InCalc /\ pc = "to_file"
    /\ files' = to_file(files, OutPath(args), heap[subset])
    /\ stdout' = Append(stdout, <<"Saved", Len(heap[subset].rows), OutPath(args)>>)
    /\ events' = events \o << <<"write", idx, OutPath(args)>>, <<"return", idx>> >>
    /\ IF entry = "bounding_box_calc"
       THEN pc' = "returned" /\ UNCHANGED idx
       ELSE pc' = "loop" /\ idx' = idx + 1
    /\ UNCHANGED <<entry, ret, err, parseVars, dataVars, args, subset, dirs,
                   csv, table>>

(***************************************************************************)
(* The caller invokes bounding_box_calc on a file system that holds one    *)
(* input file.  The file holds up to MaxFeatures shapes; its coordinates   *)
(* are in the units of EPSG:native and it is tagged EPSG:tag (0: no tag).  *)
(* Shapes and boxes are given by their EPSG:4326 coordinates.              *)
(***************************************************************************)
Shapes ==
    {<<2, 2, 2, 2>>, <<1, 2, 1, 2>>, <<4, 4, 4, 4>>, <<1, 1, 2, 2>>,
     <<2, 2, 4, 4>>, <<1, 1, 1, 3>>, <<1, 2, 2, 2>>}

Boxes == {<<1, 1, 3, 3>>, <<3, 3, 1, 1>>}

InputPath == <<"data", "in.geojson">>
MissingPath == <<"data", "missing.geojson">>

FileColumns == <<"id", "name", "geometry">>

FileOf(shapes, native, tag) ==
    MakeDataset(FileColumns,
                [i \in 1..Len(shapes) |-> Reproject(shapes[i], 4326, native)],
                tag)

CleanLists ==
    {[given |-> TRUE, list |-> <<>>],
     [given |-> TRUE, list |-> <<"geometry", "name">>],
     [given |-> TRUE, list |-> <<"name">>],
     [given |-> TRUE, list |-> <<"nonexistent1", "geometry">>],
     [given |-> TRUE, list |-> <<"nonexistent1">>]}

CrsArguments == {<<"str", "no">>, <<"int", 4326>>, <<"int", 27700>>}

InitCalc ==
    /\ entry = "bounding_box_calc"
    /\ pc = "makedirs"
    /\ ret = 0
    /\ err = "none"
    /\ stdout = <<>>
    /\ IdleParse /\ IdleData /\ IdleTable
    /\ \E shapes \in SeqsUpTo(Shapes, MaxFeatures), native \in {4326, 27700},
          tag \in {0, 4326, 27700} :
           files = Store(<<>>, InputPath, FileOf(shapes, native, tag))
    /\ \E f \in {InputPath, MissingPath}, b \in Boxes, c \in CleanLists,
          crs \in CrsArguments :
           args = [input_file |-> f, output_dir |-> <<"out">>, bbox_coords |-> b,
                   file_prefix |-> "p", clean |-> c, crs |-> crs]
    /\ subset = 0
    /\ dirs = {}
    /\ events = << <<"call", 0>> >>

NextCalc ==
    \/ CalcMakedirs \/ CalcReadFile \/ CalcCleaning \/ CalcSetCrs
    \/ CalcToCrs \/ CalcWithin \/ CalcToFile

SpecCalc == InitCalc /\ [][NextCalc]_vars

(***************************************************************************)
(* Claims about bounding_box_calc (checked under SpecCalc).                *)
(***************************************************************************)
\* Coordinates of a shape g against the rectangle b = <<minx, miny, maxx, maxy>>.
ContainedIn(g, b) ==
    b[1] <= g[1] /\ g[3] <= b[3] /\ b[2] <= g[2] /\ g[4] <= b[4]
StrictlyInside(g, b) ==
    b[1] < g[1] /\ g[3] < b[3] /\ b[2] < g[2] /\ g[4] < b[4]
OnBorderOnly(g, b) ==
    \/ g[1] = g[3] /\ g[1] \in {b[1], b[3]}
    \/ g[2] = g[4] /\ g[2] \in {b[2], b[4]}

Rectangle(c) ==
    <<IF c[1] <= c[3] THEN c[1] ELSE c[3], IF c[2] <= c[4] THEN c[2] ELSE c[4],
      IF c[1] <= c[3] THEN c[3] ELSE c[1], IF c[2] <= c[4] THEN c[4] ELSE c[2]>>

GeometryOfRow(d, r) == r[ColumnIndex(d.columns, "geometry")]

\* C1: when bounding_box_calc returns, the output file holds exactly the rows
\* of the column-filtered, CRS-handled dataset whose geometry is contained in
\* the rectangle of bbox_coords and does not lie in its border only: a shape
\* strictly inside is written, a shape with a part outside or a point on the
\* border is not, and no other file is written.
C1_WrittenFeatures ==
    (entry = "bounding_box_calc" /\ pc = "returned")
        => LET d == heap[gdf]
               b == Rectangle(args.bbox_coords)
               out == files[OutPath(args)]
               written == {out.rows[i] : i \in 1..Len(out.rows)}
           IN  /\ DOMAIN files = {InputPath, OutPath(args)}
               /\ d.columns = IF args.clean.list = <<>> THEN FileColumns
                                                        ELSE args.clean.list
               /\ out.columns = d.columns
               /\ out.crs = d.crs
               /\ out.rows =
                      SelectSeq(d.rows,
                                LAMBDA r : /\ ContainedIn(GeometryOfRow(d, r), b)
                                           /\ ~OnBorderOnly(GeometryOfRow(d, r), b))
               /\ \A i \in 1..Len(d.rows) :
                      LET g == GeometryOfRow(d, d.rows[i])
                      IN  /\ StrictlyInside(g, b) => d.rows[i] \in written
                          /\ ~ContainedIn(g, b) => d.rows[i] \notin written
                          /\ (g[1] = g[3] /\ g[2] = g[4] /\ ~StrictlyInside(g, b))
                                 => d.rows[i] \notin written

C1_Witness ==
    /\ entry = "bounding_box_calc" /\ pc = "returned"
    /\ args.bbox_coords = <<1, 1, 3, 3>>
    /\ Len(heap[gdf].rows) = 2
    /\ GeometryOfRow(heap[gdf], heap[gdf].rows[1]) = <<1, 2, 1, 2>>
    /\ GeometryOfRow(heap[gdf], heap[gdf].rows[2]) = <<1, 1, 2, 2>>
    /\ Len(files[OutPath(args)].rows) = 1
    /\ files[OutPath(args)].rows[1] = heap[gdf].rows[2]

\* The call reaches the crs directive with a frame that has a geometry column.
ReachesCrs ==
    /\ entry = "bounding_box_calc"
    /\ args.input_file \in DOMAIN files
    /\ \/ args.clean.list = <<>>
       \/ /\ MissingColumns(files[args.input_file], args.clean.list) = {}
          /\ "geometry" \in Elems(args.clean.list)

\* C4: with crs "no" or 4326 the CRS label and the coordinates are as loaded
\* when the spatial filter runs; with any other code c the frame is declared
\* c whatever tag the file carried (none, c, or another), its coordinates
\* unchanged, and is then reprojected from c into 4326 before the filter.
C4_CrsDirective ==
    ReachesCrs =>
        LET loaded == files[args.input_file]
            c == EpsgOf(args.crs)
        IN  IF IsNo(args.crs) \/ Is4326(args.crs)
            THEN pc = "within" =>
                     /\ heap[gdf].crs = loaded.crs
                     /\ GeometriesOf(heap[gdf]) = GeometriesOf(loaded)
            ELSE /\ pc # "raised"
                 /\ pc = "to_crs" =>
                        /\ heap[gdf].crs = c
                        /\ GeometriesOf(heap[gdf]) = GeometriesOf(loaded)
                 /\ pc = "within" =>
                        /\ heap[gdf].crs = 4326
                        /\ GeometriesOf(heap[gdf]) =
                               [i \in 1..Len(loaded.rows) |->
                                   Reproject(GeometriesOf(loaded)[i], c, 4326)]

(***************************************************************************)
(* bounding_box_calc_table, lines 124-143.  A row of the configuration     *)
(* file gives its cells as written; pd.read_csv makes the crs column a     *)
(* column of integers when every cell is a number, and a column of strings *)
(* as soon as one cell is the text no.                                     *)
(***************************************************************************)
Spell(name) ==
    IF name = "id" THEN <<"i", "d">>
    ELSE IF name = "name" THEN <<"n", "a", "m", "e">>
    ELSE IF name = "geometry" THEN GeometryWord
    ELSE IF name = "nonexistent1"
         THEN <<"n", "o", "n", "e", "x", "i", "s", "t", "e", "n", "t", "1">>
    ELSE <<"?">>

\* The column name a parsed token spells.
ToName(chars) ==
    IF \E n \in ColumnNames : Spell(n) = chars
    THEN CHOOSE n \in ColumnNames : Spell(n) = chars
    ELSE "?"

CrsNumber(text) ==
    IF text = "4326" THEN 4326 ELSE IF text = "27700" THEN 27700 ELSE 0

read_csv(rows) ==
    LET numeric == \A i \in 1..Len(rows) : rows[i].crs # "no"
    IN  [i \in 1..Len(rows) |->
            [rows[i] EXCEPT !.crs = IF numeric THEN <<"int", CrsNumber(@)>>
                                              ELSE <<"str", @>>]]

\* A parse that yields the empty list for a cell that cannot be parsed.
ParsedCellsLenient(t) ==
    [i \in 1..Len(t) |->
        IF parse_bracket_list(t[i].columns_to_keep).ok
        THEN parse_bracket_list(t[i].columns_to_keep)
        ELSE [ok |-> TRUE, value |-> <<>>]]

\* line 127: df["column_names"] = df['columns_to_keep'].apply(parse_bracket_list)
ParsedCells(t) == [i \in 1..Len(t) |-> parse_bracket_list(t[i].columns_to_keep)]

ColumnNamesOf(parsed) ==
    [given |-> TRUE, list |-> [k \in 1..Len(parsed.value) |-> ToName(parsed.value[k])]]

\* lines 132-141: the arguments of the call for one row
RowArgs(row) ==
    [input_file |-> row.input_file, output_dir |-> row.output_dir,
     bbox_coords |-> <<row.minx, row.miny, row.maxx, row.maxy>>,
     file_prefix |-> row.file_prefix, clean |-> row.column_names,
     crs |-> row.crs]

\* line 124-125: df = pd.read_csv(path_to_csv); print(df.columns)
TableReadCsv ==
    /\ entry = "bounding_box_calc_table" /\ pc = "read_csv"
    /\ table' = read_csv(csv)
    /\ stdout' = Append(stdout, <<"Index", <<"input_file", "output_dir", "minx",
                     "miny", "maxx", "maxy", "file_prefix", "crs",
                     "columns_to_keep">> >>)
    /\ pc' = "apply"
    /\ UNCHANGED <<entry, ret, err, parseVars, dataVars, calcVars, csv, idx>>

\* line 127, for every row before the loop starts
TableApply ==
    /\ entry = "bounding_box_calc_table" /\ pc = "apply"
    /\ LET parsed == ParsedCells(table)
       IN  IF \E i \in 1..Len(table) : ~parsed[i].ok
           THEN Raise("AttributeError") /\ UNCHANGED <<table, idx>>
           ELSE /\ table' = [i \in 1..Len(table) |->
                                table[i] @@ [column_names |-> ColumnNamesOf(parsed[i])]]
                /\ idx' = 1
                /\ pc' = "loop"
                /\ UNCHANGED err
    /\ UNCHANGED <<entry, ret, stdout, parseVars, dataVars, calcVars, csv>>

\* lines 130-141: the next row, and the call of bounding_box_calc for it
TableNextRow ==
    /\ entry = "bounding_box_calc_table" /\ pc = "loop"
    /\ idx <= Len(table)
    /\ args' = RowArgs(table[idx])
    /\ heap' = <<>> /\ gdf' = 0 /\ subset' = 0
    /\ events' = Append(events, <<"call", idx>>)
    /\ pc' = "makedirs"
    /\ UNCHANGED <<entry, ret, err, stdout, parseVars, sel, files, dirs, tableVars>>

\* line 143: print(f"Processed {len(df)} files from {path_to_csv}")
TableSummary ==
    /\ entry = "bounding_box_calc_table" /\ pc = "loop"
    /\ idx > Len(table)
    /\ stdout' = Append(stdout, <<"Processed", Len(table), "config.csv">>)
    /\ pc' = "returned"
    /\ UNCHANGED <<entry, ret, err, parseVars, dataVars, calcVars, tableVars>>

(***************************************************************************)
(* The caller invokes bounding_box_calc_table on a configuration file of   *)
(* up to MaxRows rows, on a file system that holds three input files.      *)
(***************************************************************************)
Quoted(name) == <<"'">> \o Spell(name) \o <<"'">>

ConfigRow(file, prefix, crs, cols) ==
    [input_file |-> <<"data", file>>, output_dir |-> <<"out">>,
     minx |-> 1, miny |-> 1, maxx |-> 3, maxy |-> 3,
     file_prefix |-> prefix, crs |-> crs, columns_to_keep |-> cols]

ConfigRows ==
    {ConfigRow("a.geojson", "output1", "4326",
               <<"[">> \o Quoted("id") \o <<" ">> \o Quoted("name") \o <<" ">>
                   \o Quoted("geometry") \o <<"]">>),
     ConfigRow("b.geojson", "output2", "27700",
               <<"[">> \o Quoted("id") \o <<" ">> \o Quoted("geometry") \o <<"]">>),
     ConfigRow("missing.geojson", "output3", "4326",
               <<"[">> \o Quoted("geometry") \o <<"]">>),
     ConfigRow("a.geojson", "output4", "no", <<"[", "]">>),
     ConfigRow("a.geojson", "output5", "4326",
               <<"[">> \o Quoted("id") \o <<" ">> \o GeometryWord \o <<"]">>),
     ConfigRow("a.geojson", "output6", "4326",
               Quoted("id") \o <<" ">> \o Quoted("geometry")),
     ConfigRow("a.geojson", "output7", "4326",
               <<"[">> \o Quoted("nonexistent1") \o <<" ">> \o Quoted("geometry")
                   \o <<"]">>),
     ConfigRow("c.geojson", "output8", "27700",
               <<"[">> \o Quoted("geometry") \o <<"]">>),
     ConfigRow("b.geojson", "output9", "4326",
               <<"[">> \o Quoted("geometry") \o <<"]">>)}

InputFiles ==
    Store(Store(Store(<<>>,
        <<"data", "a.geojson">>,
        FileOf(<< <<2, 2, 2, 2>>, <<1, 2, 1, 2>>, <<4, 4, 4, 4>> >>, 4326, 4326)),
        <<"data", "b.geojson">>,
        FileOf(<< <<1, 1, 2, 2>>, <<2, 2, 4, 4>> >>, 27700, 27700)),
        <<"data", "c.geojson">>,
        FileOf(<< <<2, 2, 2, 2>> >>, 27700, 4326))

InitTable ==
    /\ entry = "bounding_box_calc_table"
    /\ pc = "read_csv"
    /\ ret = 0
    /\ err = "none"
    /\ stdout = <<>>
    /\ IdleParse /\ IdleData
    /\ args = NoArgs /\ subset = 0 /\ dirs = {} /\ events = <<>>
    /\ files = InputFiles
    /\ csv \in SeqsUpTo(ConfigRows, MaxRows)
    /\ table = <<>>
    /\ idx = 0

NextTable ==
    \/ TableReadCsv \/ TableApply \/ TableNextRow \/ TableSummary
    \/ CalcMakedirs \/ CalcReadFile \/ CalcCleaning \/ CalcSetCrs
    \/ CalcToCrs \/ CalcWithin \/ CalcToFile

SpecTable == InitTable /\ [][NextTable]_vars

(***************************************************************************)
(* Claims about bounding_box_calc_table (checked under SpecTable).         *)
(***************************************************************************)
ExpectedPath(i) == <<csv[i].output_dir, csv[i].file_prefix, "_subset.geojson">>

RECURSIVE ExpectedEvents(_)
ExpectedEvents(n) ==
    IF n = 0 THEN <<>>
    ELSE ExpectedEvents(n - 1)
             \o << <<"call", n>>, <<"write", n, ExpectedPath(n)>>, <<"return", n>> >>

IsPrefix(a, b) == Len(a) <= Len(b) /\ SubSeq(b, 1, Len(a)) = a

SummaryPrinted == \E k \in 1..Len(stdout) : stdout[k][1] = "Processed"

\* C2: when bounding_box_calc fails on row k of an N-row batch, the failure
\* reaches the caller, the output file of every row before k exists, nothing
\* was written for row k or any later row, and no summary line was printed.
C2_FailFast ==
    (entry = "bounding_box_calc_table" /\ pc = "raised" /\ idx >= 1)
        => /\ err # "none"
           /\ \A i \in 1..(idx - 1) : ExpectedPath(i) \in DOMAIN files
           /\ \A e \in 1..Len(events) :
                  events[e][1] = "write" => events[e][2] < idx
           /\ \A i \in idx..Len(csv) :
                  ExpectedPath(i) \in DOMAIN files
                      => \E j \in 1..(idx - 1) : ExpectedPath(j) = ExpectedPath(i)
           /\ ~SummaryPrinted

C2_Witness ==
    /\ entry = "bounding_box_calc_table" /\ pc = "raised"
    /\ err = "DataSourceError"
    /\ Len(csv) = 3 /\ idx = 2
    /\ csv[2].input_file = <<"data", "missing.geojson">>
    /\ ExpectedPath(1) \in DOMAIN files
    /\ ExpectedPath(3) \notin DOMAIN files

\* C3: bounding_box_calc is called once per row, in file order, each call
\* writing its <output_dir>/<file_prefix>_subset.geojson and returning before
\* the next begins; the summary line is printed only after the last row has
\* completed, and it reports the number of rows.
C3_RowOrder ==
    entry = "bounding_box_calc_table"
        => /\ IsPrefix(events, ExpectedEvents(Len(csv)))
           /\ SummaryPrinted =>
                  /\ pc = "returned"
                  /\ events = ExpectedEvents(Len(csv))
           /\ pc = "returned" =>
                  /\ events = ExpectedEvents(Len(csv))
                  /\ \A i \in 1..Len(csv) : ExpectedPath(i) \in DOMAIN files
                  /\ stdout[Len(stdout)] = <<"Processed", Len(csv), "config.csv">>
                  /\ \A k \in 1..(Len(stdout) - 1) : stdout[k][1] # "Processed"

C3_Witness ==
    /\ entry = "bounding_box_calc_table" /\ pc = "returned"
    /\ Len(csv) = 3
    /\ csv[1].file_prefix = "output2" /\ csv[2].file_prefix = "output1"
    /\ csv[3].file_prefix = "output4"
    /\ \A i \in 1..3 : ExpectedPath(i) \in DOMAIN files
    /\ stdout[Len(stdout)][1] = "Processed" /\ stdout[Len(stdout)][2] = 3

\* The batch is inside the call of bounding_box_calc for row idx.
InRowCall ==
    /\ entry = "bounding_box_calc_table"
    /\ pc \in {"makedirs", "read_file", "cleaning", "crs", "to_crs", "within",
                "to_file", "raised"}
    /\ idx \in 1..Len(csv)

\* C12: in a batch, the crs cell of the row being processed alone decides the
\* CRS handling of that row, whatever the other rows' cells are: with the
\* cell no or 4326 nothing is declared and nothing is reprojected (the frame
\* reaches the spatial filter with the label and coordinates it was loaded
\* with, and the declaration never fails), and only with another code is the
\* frame declared and reprojected into 4326.
C12_CrsPerRow ==
    InRowCall =>
        LET t == csv[idx].crs
            skip == t \in {"no", "4326"}
        IN  /\ IsNo(args.crs) <=> t = "no"
            /\ ~IsNo(args.crs) => EpsgOf(args.crs) = CrsNumber(t)
            /\ pc = "to_crs" => ~skip
            /\ (pc = "raised" /\ err = "ValueError") => ~skip
            /\ (pc = "within" /\ HasGeometry(heap[gdf])) =>
                   LET loaded == files[args.input_file]
                   IN  IF skip
                       THEN /\ heap[gdf].crs = loaded.crs
                            /\ GeometriesOf(heap[gdf]) = GeometriesOf(loaded)
                       ELSE /\ heap[gdf].crs = 4326
                            /\ GeometriesOf(heap[gdf]) =
                                   [i \in 1..Len(loaded.rows) |->
                                       Reproject(GeometriesOf(loaded)[i],
                                                 CrsNumber(t), 4326)]

\* Some row of the configuration file has a columns_to_keep cell that
\* parse_bracket_list cannot parse.
SomeCellUnparseable ==
    \E i \in 1..Len(csv) : ~parse_bracket_list(csv[i].columns_to_keep).ok

\* C13: every columns_to_keep cell is parsed before bounding_box_calc is
\* called for any row (a call is only ever made on a table whose rows all
\* carry their parsed list); so when any row's cell cannot be parsed, the last
\* included, the batch raises with no call made: no directory created, no
\* file written for any row, and no summary line.
C13_ParseBeforeAnyCall ==
    entry = "bounding_box_calc_table" =>
        /\ (events # <<>> \/ dirs # {}) =>
               /\ ~SomeCellUnparseable
               /\ \A i \in 1..Len(table) : "column_names" \in DOMAIN table[i]
        /\ SomeCellUnparseable =>
               /\ pc \in {"read_csv", "apply", "raised"}
               /\ pc = "raised" => err = "AttributeError"
               /\ events = <<>>
               /\ dirs = {}
               /\ files = InputFiles
               /\ \A i \in 1..Len(csv) : ExpectedPath(i) \notin DOMAIN files
               /\ ~SummaryPrinted

C13_Witness ==
    /\ entry = "bounding_box_calc_table" /\ pc = "raised"
    /\ err = "AttributeError"
    /\ Len(csv) = 3
    /\ csv[1].file_prefix = "output1" /\ csv[2].file_prefix = "output2"
    /\ csv[3].file_prefix = "output6"
    /\ parse_bracket_list(csv[1].columns_to_keep).ok
    /\ ~parse_bracket_list(csv[3].columns_to_keep).ok
    /\ events = <<>> /\ dirs = {} /\ files = InputFiles

(***************************************************************************)
(* The library as a whole: the caller invokes one of its four functions.   *)
(***************************************************************************)
Init == InitParse \/ InitCleaning \/ InitCalc \/ InitTable

Next == NextParse \/ NextCleaning \/ NextCalc \/ NextTable

Spec == Init /\ [][Next]_vars

(***************************************************************************)
(* Claims about bounding_box_calc called directly or from a batch (checked *)
(* under Spec).                                                            *)
(***************************************************************************)
\* bounding_box_calc is running, or has just raised or returned, with a
\* non-empty clean list that does not name the geometry column.
CallWithoutGeometry ==
    /\ InCalc
    /\ pc \in {"makedirs", "read_file", "cleaning", "crs", "to_crs", "within",
                "to_file", "raised", "returned"}
    /\ args.clean.list # <<>>
    /\ "geometry" \notin Elems(args.clean.list)

SavedPrinted(path) ==
    \E k \in 1..Len(stdout) : stdout[k][1] = "Saved" /\ stdout[k][3] = path

====
